---- MODULE Spec2Model ----
(***************************************************************************)
(* A model of rayon's fork-join primitive `join` (src/src/join.rs) running *)
(* on a pool of work-stealing worker threads.                              *)
(*                                                                         *)
(* Every worker owns a deque of job references and a call stack of frames. *)
(* A frame is a live invocation of `join` (kind "join"), of                *)
(* WorkerThread::wait_until (kind "wait") or of Job::execute (kind         *)
(* "exec"); only the top frame of a stack takes steps.  The closures that  *)
(* are joined form a binary tree chosen at Init: the closure at node n is  *)
(* a leaf that returns ("ok"), a leaf that panics ("panic"), a leaf that   *)
(* pushes one detached job on the deque and returns ("spawn"), or a        *)
(* closure that calls join on the closures at nodes 2n and 2n+1 ("join").  *)
(* The stack job that join builds for closure B = 2n+1 is named 2n+1; the  *)
(* detached job pushed by the closure at node n is named -n.               *)
(***************************************************************************)
EXTENDS Integers, Sequences, FiniteSets, TLC

\* Bounds of the model.
NumWorkers == 3
MaxJoins == 2

VARIABLES
    kind,       \* the tree of closures (input, never changes)
    inPool,     \* whether the outermost join is called on a worker thread
    stack,      \* per worker: its call stack of frames
    deque,      \* per worker: its deque of job references, tail at the end
    latch,      \* per stack job: its SpinLatch
    result,     \* per stack job: its result cell
    exit,       \* history: per join node, how its join call exited
    owner,      \* history: per join node, the worker that ran the call
    runs,       \* history: per closure, the workers that entered it, in order
    writes,     \* history: per stack job, the workers that wrote its result cell
    removed,    \* history: per job, how often a pop or steal returned it
    thief,      \* history: per job, the worker that stole it (0: none)
    waited,     \* history: per stack job, whether wait_until was called on it
    reads,      \* history: per stack job, how often into_result read its cell
    inlined,    \* history: per stack job, whether run_inline was called on it
    pushed,     \* history: per worker, the jobs pushed on its deque, in order
    popper      \* history: per job, the join call whose loop popped it (0: none)

vars == <<kind, inPool, stack, deque, latch, result, exit, owner,
          runs, writes, removed, thief, waited, reads, inlined, pushed,
          popper>>

Workers == 1..NumWorkers

RECURSIVE Pow2(_)
Pow2(d) == IF d = 0 THEN 1 ELSE 2 * Pow2(d - 1)

\* Node n's closures A and B are nodes 2n and 2n+1; a chain of MaxJoins
\* nested joins reaches depth MaxJoins.
Nodes == 1..(Pow2(MaxJoins + 1) - 1)

OperA(n) == 2 * n
OperB(n) == 2 * n + 1

\* The stack jobs (one per possible closure B) and the detached jobs.
BJobs == {n \in Nodes : n > 1 /\ n % 2 = 1}
SJobs == {0 - n : n \in Nodes}
Jobs == BJobs \cup SJobs

LeafKinds == {"ok", "panic", "spawn"}

\* All closure trees rooted at node n with at most k calls of join, as
\* functions from the tree's nodes to their kinds.
RECURSIVE TreesAt(_, _)
TreesAt(n, k) ==
    LET leaves == {n :> x : x \in LeafKinds}
    IN  IF k = 0
        THEN leaves
        ELSE leaves \cup
             UNION {{(n :> "join") @@ l @@ r :
                        l \in TreesAt(OperA(n), i),
                        r \in TreesAt(OperB(n), k - 1 - i)} : i \in 0..(k - 1)}

KindOf(n) == IF n \in DOMAIN kind THEN kind[n] ELSE "none"

JoinNodes == {n \in Nodes : KindOf(n) = "join"}

\* JobResult: None | Ok(value) | Panic(payload).
Pending == [tag |-> "pending", val |-> <<>>, err |-> 0]
Ok(v) == [tag |-> "ok", val |-> v, err |-> 0]
Panic(p) == [tag |-> "panic", val |-> <<>>, err |-> p]

\* What a leaf closure does when called: it returns its own name or panics
\* with its own name as payload.
LeafOutcome(n) == IF KindOf(n) = "panic" THEN Panic(n) ELSE Ok(<<n>>)

\* What a closure that calls join makes of the pair join returns.
Combine(ra, rb) == ra \o rb

Frame(k, n, pc) == [kind |-> k, node |-> n, pc |-> pc, ra |-> Pending]

Top(w) == stack[w][Len(stack[w])]
SetTop(st, f) == [st EXCEPT ![Len(st)] = f]
PopFrame(st) == SubSeq(st, 1, Len(st) - 1)

OnTop(w, k, pc) ==
    /\ stack[w] # <<>>
    /\ Top(w).kind = k
    /\ Top(w).pc = pc

NoExit == [tag |-> "none", a |-> <<>>, b |-> <<>>, err |-> 0]
ExitOk(ra, rb) == [tag |-> "ok", a |-> ra, b |-> rb, err |-> 0]
ExitPanic(p) == [tag |-> "panic", a |-> <<>>, b |-> <<>>, err |-> p]
ExitAbort == [tag |-> "abort", a |-> <<>>, b |-> <<>>, err |-> 0]

Init ==
    /\ kind \in {t \in TreesAt(1, MaxJoins) : t[1] = "join"}
    /\ inPool \in BOOLEAN
    /\ stack = [w \in Workers |->
                   IF w = 1 THEN <<Frame("join", 1, "start")>>
                            ELSE <<Frame("wait", 0, "find")>>]
    /\ deque = [w \in Workers |-> <<>>]
    /\ latch = [j \in BJobs |-> FALSE]
    /\ result = [j \in BJobs |-> Pending]
    /\ exit = [n \in Nodes |-> NoExit]
    /\ owner = [n \in Nodes |-> 0]
    /\ runs = [j \in Nodes \cup SJobs |-> <<>>]
    /\ writes = [j \in BJobs |-> <<>>]
    /\ removed = [j \in Jobs |-> 0]
    /\ thief = [j \in Jobs |-> 0]
    /\ waited = [j \in BJobs |-> FALSE]
    /\ reads = [j \in BJobs |-> 0]
    /\ inlined = [j \in BJobs |-> FALSE]
    /\ pushed = [w \in Workers |-> <<>>]
    /\ popper = [j \in Jobs |-> 0]

(***************************************************************************)
(* Worker deque (crate deque): push and pop at the owner's tail, steal at  *)
(* the head.                                                               *)
(***************************************************************************)
Push(q, job) == Append(q, job)

\* Mutant: a pop that returns the tail job and leaves it in the deque.
MutPop(q) == q

Pop(q) == SubSeq(q, 1, Len(q) - 1)
PopJob(q) == q[Len(q)]
Steal(q) == Tail(q)

\* Mutant: the thief is handed the job at the owner's end of the deque.
MutStealJob(q) == q[Len(q)]

StealJob(q) == Head(q)

\* SpinLatch: probe and set.
Probe(j) == latch[j]

\* Mutant: all the latches share one flag word, and set overwrites it.
MutLatchSet(j) == [i \in BJobs |-> i = j]

LatchSet(j) == [latch EXCEPT ![j] = TRUE]

\* Mutant: the pair is returned the wrong way round.
MutReturnedSwapped(ra, r) ==
    IF r.tag = "ok" THEN ExitOk(r.val, ra.val) ELSE ExitPanic(r.err)

\* Mutant: B's panic is dropped and join returns normally.
MutReturnedSwallows(ra, r) == ExitOk(ra.val, r.val)

\* How join leaves with A's value ra and the outcome r of job B: it returns
\* (result_a, result_b), or B's panic is re-raised (by run_inline, or by
\* into_result from the result cell; an empty cell is unreachable!()).
Returned(ra, r) ==
    IF r.tag = "ok" THEN ExitOk(ra.val, r.val) ELSE ExitPanic(r.err)

\* thread_pool::in_worker: the calling thread is a worker of a pool.
InWorker(w) == inPool

\* The push history after worker w has run the leaf closure at node n.
PushedAfterLeaf(w, n) ==
    IF KindOf(n) = "spawn" THEN [pushed EXCEPT ![w] = Append(@, 0 - n)]
    ELSE pushed

\* The deques after worker w has run the leaf closure at node n.
DequeAfterLeaf(w, n) ==
    IF KindOf(n) = "spawn"
    THEN [deque EXCEPT ![w] = Push(@, 0 - n)]
    ELSE deque

\* The closure's value or panic, from the way join exited.
OutcomeOf(e) == IF e.tag = "ok" THEN Ok(Combine(e.a, e.b)) ELSE Panic(e.err)

\* The stack job whose result cell receives what the callee of frame c
\* returns (0: none, the caller keeps it in a local).
StoredBy(c) ==
    IF c.kind = "exec" THEN c.node
    ELSE IF c.pc = "inline" THEN OperB(c.node)
    ELSE 0

\* Frame c after its callee has returned or unwound with outcome o.
Resume(c, o) ==
    IF c.kind = "exec" THEN [c EXCEPT !.pc = "set"]
    ELSE IF c.pc = "inline" THEN [c EXCEPT !.pc = "inline_set"]
    ELSE [c EXCEPT !.ra = o,
                   !.pc = IF o.tag = "ok" THEN "probe" ELSE "recover"]

\* The join call on top of w's stack returns or unwinds as e: its frame is
\* gone and its caller (the closure that called join) hands the outcome on.
Exit(w, e) ==
    LET n  == Top(w).node
        st == PopFrame(stack[w])
        o  == OutcomeOf(e)
    IN  /\ exit' = [exit EXCEPT ![n] = e]
        /\ IF st = <<>>
           THEN /\ stack' = [stack EXCEPT ![w] = <<>>]
                /\ UNCHANGED <<result, writes>>
           ELSE LET c == st[Len(st)]
                    j == StoredBy(c)
                IN  /\ stack' = [stack EXCEPT ![w] = SetTop(st, Resume(c, o))]
                    /\ IF j = 0
                       THEN UNCHANGED <<result, writes>>
                       ELSE /\ result' = [result EXCEPT ![j] = o]
                            /\ writes' = [writes EXCEPT ![j] = Append(@, w)]

(***************************************************************************)
(* join, src/src/join.rs                                                   *)
(***************************************************************************)

\* in_worker fails: join is called outside a pool.
JoinMisuse(w) ==
    /\ OnTop(w, "join", "start")
    /\ ~InWorker(w)
    /\ stack' = [stack EXCEPT ![w] = <<>>]
    /\ exit' = [exit EXCEPT ![Top(w).node] = ExitAbort]
    /\ UNCHANGED <<kind, inPool, deque, pushed, latch, result, owner, runs, writes,
                   removed, popper, thief, waited, reads, inlined>>

\* Mutant: the body of join runs without in_worker having found a worker.
MutJoinStart(w) ==
    /\ OnTop(w, "join", "start")
    /\ deque' = [deque EXCEPT ![w] = Push(@, OperB(Top(w).node))]
    /\ pushed' = [pushed EXCEPT ![w] = Append(@, OperB(Top(w).node))]
    /\ stack' = [stack EXCEPT ![w] = SetTop(@, [Top(w) EXCEPT !.pc = "runA"])]
    /\ owner' = [owner EXCEPT ![Top(w).node] = w]
    /\ UNCHANGED <<kind, inPool, latch, result, exit, runs, writes,
                   removed, popper, thief, waited, reads, inlined>>

\* Mutant: job B is built but never pushed on the deque.
MutJoinStartNoPush(w) ==
    /\ OnTop(w, "join", "start")
    /\ InWorker(w)
    /\ stack' = [stack EXCEPT ![w] = SetTop(@, [Top(w) EXCEPT !.pc = "runA"])]
    /\ owner' = [owner EXCEPT ![Top(w).node] = w]
    /\ UNCHANGED <<kind, inPool, deque, pushed, latch, result, exit, runs, writes,
                   removed, popper, thief, waited, reads, inlined>>

\* Mutant: job B is put at the thieves' end of the deque.
MutJoinStartPushFront(w) ==
    /\ OnTop(w, "join", "start")
    /\ InWorker(w)
    /\ deque' = [deque EXCEPT ![w] = <<OperB(Top(w).node)>> \o @]
    /\ pushed' = [pushed EXCEPT ![w] = Append(@, OperB(Top(w).node))]
    /\ stack' = [stack EXCEPT ![w] = SetTop(@, [Top(w) EXCEPT !.pc = "runA"])]
    /\ owner' = [owner EXCEPT ![Top(w).node] = w]
    /\ UNCHANGED <<kind, inPool, latch, result, exit, runs, writes,
                   removed, popper, thief, waited, reads, inlined>>

\* let job_b = StackJob::new(..); worker_thread.push(job_b.as_job_ref())
JoinStart(w) ==
    /\ OnTop(w, "join", "start")
    /\ InWorker(w)
    /\ deque' = [deque EXCEPT ![w] = Push(@, OperB(Top(w).node))]
    /\ pushed' = [pushed EXCEPT ![w] = Append(@, OperB(Top(w).node))]
    /\ stack' = [stack EXCEPT ![w] = SetTop(@, [Top(w) EXCEPT !.pc = "runA"])]
    /\ owner' = [owner EXCEPT ![Top(w).node] = w]
    /\ UNCHANGED <<kind, inPool, latch, result, exit, runs, writes,
                   removed, popper, thief, waited, reads, inlined>>

\* unwind::halt_unwinding(oper_a)
JoinRunA(w) ==
    /\ OnTop(w, "join", "runA")
    /\ LET a == OperA(Top(w).node)
       IN  /\ runs' = [runs EXCEPT ![a] = Append(@, w)]
           /\ IF KindOf(a) = "join"
              THEN /\ stack' = [stack EXCEPT ![w] = Append(@, Frame("join", a, "start"))]
                   /\ UNCHANGED <<deque, pushed>>
              ELSE /\ stack' = [stack EXCEPT ![w] = SetTop(@, Resume(Top(w), LeafOutcome(a)))]
                   /\ deque' = DequeAfterLeaf(w, a)
                   /\ pushed' = PushedAfterLeaf(w, a)
    /\ UNCHANGED <<kind, inPool, latch, result, exit, owner, writes,
                   removed, popper, thief, waited, reads, inlined>>

\* Mutant: A's panic is re-raised without waiting for job B.
MutJoinRecover(w) ==
    /\ OnTop(w, "join", "recover")
    /\ stack' = [stack EXCEPT ![w] = SetTop(@, [Top(w) EXCEPT !.pc = "resume"])]
    /\ UNCHANGED <<kind, inPool, deque, pushed, latch, result, exit, owner, runs,
                   writes, removed, popper, thief, waited, reads, inlined>>

\* Mutant: the wait for job B only watches the latch and runs no job.
MutJoinRecoverSpin(w) ==
    /\ OnTop(w, "join", "recover")
    /\ Probe(OperB(Top(w).node))
    /\ stack' = [stack EXCEPT ![w] = SetTop(@, [Top(w) EXCEPT !.pc = "resume"])]
    /\ waited' = [waited EXCEPT ![OperB(Top(w).node)] = TRUE]
    /\ UNCHANGED <<kind, inPool, deque, pushed, latch, result, exit, owner, runs,
                   writes, removed, popper, thief, reads, inlined>>

\* join_recover_from_panic: worker_thread.wait_until(job_b_latch)
JoinRecover(w) ==
    /\ OnTop(w, "join", "recover")
    /\ stack' = [stack EXCEPT ![w] =
                    Append(SetTop(@, [Top(w) EXCEPT !.pc = "resume"]),
                           Frame("wait", OperB(Top(w).node), "probe"))]
    /\ waited' = [waited EXCEPT ![OperB(Top(w).node)] = TRUE]
    /\ UNCHANGED <<kind, inPool, deque, pushed, latch, result, exit, owner, runs,
                   writes, removed, popper, thief, reads, inlined>>

\* Mutant: after the wait, B's panic is preferred to A's.
MutJoinResume(w) ==
    /\ OnTop(w, "join", "resume")
    /\ LET r == result[OperB(Top(w).node)]
       IN  Exit(w, ExitPanic(IF r.tag = "panic" THEN r.err ELSE Top(w).ra.err))
    /\ UNCHANGED <<kind, inPool, deque, pushed, latch, owner, runs, removed, popper, thief,
                   waited, reads, inlined>>

\* join_recover_from_panic: unwind::resume_unwinding(err)
JoinResume(w) ==
    /\ OnTop(w, "join", "resume")
    /\ Exit(w, ExitPanic(Top(w).ra.err))
    /\ UNCHANGED <<kind, inPool, deque, pushed, latch, owner, runs, removed, popper, thief,
                   waited, reads, inlined>>

\* Mutant: the loop never pops; an unset latch sends it straight to wait_until.
MutJoinProbe(w) ==
    /\ OnTop(w, "join", "probe")
    /\ LET b == OperB(Top(w).node)
       IN  IF Probe(b)
           THEN /\ stack' = [stack EXCEPT ![w] = SetTop(@, [Top(w) EXCEPT !.pc = "result"])]
                /\ UNCHANGED waited
           ELSE /\ stack' = [stack EXCEPT ![w] =
                      Append(SetTop(@, [Top(w) EXCEPT !.pc = "assert"]),
                             Frame("wait", b, "probe"))]
                /\ waited' = [waited EXCEPT ![b] = TRUE]
    /\ UNCHANGED <<kind, inPool, deque, pushed, latch, result, exit, owner, runs,
                   writes, removed, popper, thief, reads, inlined>>

\* while !job_b.latch.probe()
JoinProbe(w) ==
    /\ OnTop(w, "join", "probe")
    /\ stack' = [stack EXCEPT ![w] =
                    SetTop(@, [Top(w) EXCEPT !.pc =
                                  IF Probe(OperB(Top(w).node)) THEN "result" ELSE "pop"])]
    /\ UNCHANGED <<kind, inPool, deque, pushed, latch, result, exit, owner, runs,
                   writes, removed, popper, thief, waited, reads, inlined>>

\* Mutant: a popped job B is dropped and the loop goes on.
MutJoinPopSomeDropsB(w) ==
    LET b   == OperB(Top(w).node)
        job == PopJob(deque[w])
    IN  /\ deque' = [deque EXCEPT ![w] = Pop(@)]
        /\ removed' = [removed EXCEPT ![job] = @ + 1]
        /\ popper' = [popper EXCEPT ![job] = Top(w).node]
        /\ UNCHANGED pushed
        /\ stack' = [stack EXCEPT ![w] =
              IF job = b
              THEN SetTop(@, [Top(w) EXCEPT !.pc = "probe"])
              ELSE Append(SetTop(@, [Top(w) EXCEPT !.pc = "probe"]),
                          Frame("exec", job, "call"))]
        /\ UNCHANGED waited

\* Mutant: a popped job that is not B is dropped and the loop goes on.
MutJoinPopSomeDropsOther(w) ==
    LET b   == OperB(Top(w).node)
        job == PopJob(deque[w])
    IN  /\ deque' = [deque EXCEPT ![w] = Pop(@)]
        /\ removed' = [removed EXCEPT ![job] = @ + 1]
        /\ popper' = [popper EXCEPT ![job] = Top(w).node]
        /\ UNCHANGED pushed
        /\ stack' = [stack EXCEPT ![w] =
              SetTop(@, [Top(w) EXCEPT !.pc = IF job = b THEN "inline"
                                               ELSE "probe"])]
        /\ UNCHANGED waited

\* The pop of join's loop when the deque holds a job.
JoinPopSome(w) ==
    LET b   == OperB(Top(w).node)
        job == PopJob(deque[w])
    IN  /\ deque' = [deque EXCEPT ![w] = Pop(@)]
        /\ removed' = [removed EXCEPT ![job] = @ + 1]
        /\ popper' = [popper EXCEPT ![job] = Top(w).node]
        /\ UNCHANGED pushed
        /\ stack' = [stack EXCEPT ![w] =
              IF job = b
              THEN SetTop(@, [Top(w) EXCEPT !.pc = "inline"])
              ELSE Append(SetTop(@, [Top(w) EXCEPT !.pc = "probe"]),
                          Frame("exec", job, "call"))]
        /\ UNCHANGED waited

\* Mutant: an empty deque is taken to mean that B can be run inline.
MutJoinPopRunsB(w) ==
    /\ OnTop(w, "join", "pop")
    /\ IF deque[w] # <<>>
       THEN JoinPopSome(w)
       ELSE /\ stack' = [stack EXCEPT ![w] = SetTop(@, [Top(w) EXCEPT !.pc = "inline"])]
            /\ UNCHANGED <<deque, pushed, removed, popper, waited>>
    /\ UNCHANGED <<kind, inPool, latch, result, exit, owner, runs, writes,
                   thief, reads, inlined>>

\* Mutant: an empty deque sends join to into_result without wait_until.
MutJoinPopNoWait(w) ==
    /\ OnTop(w, "join", "pop")
    /\ IF deque[w] # <<>>
       THEN JoinPopSome(w)
       ELSE /\ stack' = [stack EXCEPT ![w] = SetTop(@, [Top(w) EXCEPT !.pc = "result"])]
            /\ UNCHANGED <<deque, pushed, removed, popper, waited>>
    /\ UNCHANGED <<kind, inPool, latch, result, exit, owner, runs, writes,
                   thief, reads, inlined>>

\* if let Some(job) = worker_thread.pop() { .. } else { wait_until }
JoinPop(w) ==
    /\ OnTop(w, "join", "pop")
    /\ LET b == OperB(Top(w).node)
       IN  IF deque[w] # <<>>
           THEN JoinPopSome(w)
           ELSE /\ stack' = [stack EXCEPT ![w] =
                      Append(SetTop(@, [Top(w) EXCEPT !.pc = "assert"]),
                             Frame("wait", b, "probe"))]
                /\ waited' = [waited EXCEPT ![b] = TRUE]
                /\ UNCHANGED <<deque, pushed, removed, popper>>
    /\ UNCHANGED <<kind, inPool, latch, result, exit, owner, runs, writes,
                   thief, reads, inlined>>

\* Mutant: after the wait, the result is fetched with run_inline.
MutJoinAssert(w) ==
    /\ OnTop(w, "join", "assert")
    /\ stack' = [stack EXCEPT ![w] = SetTop(@, [Top(w) EXCEPT !.pc = "inline"])]
    /\ UNCHANGED <<kind, inPool, deque, pushed, latch, result, exit, owner, runs,
                   writes, removed, popper, thief, waited, reads, inlined>>

\* debug_assert!(job_b.latch.probe()); break
JoinAssert(w) ==
    /\ OnTop(w, "join", "assert")
    /\ stack' = [stack EXCEPT ![w] = SetTop(@, [Top(w) EXCEPT !.pc = "result"])]
    /\ UNCHANGED <<kind, inPool, deque, pushed, latch, result, exit, owner, runs,
                   writes, removed, popper, thief, waited, reads, inlined>>

\* job_b.run_inline(): the closure is called and its outcome stored
JoinRunInline(w) ==
    /\ OnTop(w, "join", "inline")
    /\ LET b == OperB(Top(w).node)
       IN  /\ runs' = [runs EXCEPT ![b] = Append(@, w)]
           /\ inlined' = [inlined EXCEPT ![b] = TRUE]
           /\ IF KindOf(b) = "join"
              THEN /\ stack' = [stack EXCEPT ![w] = Append(@, Frame("join", b, "start"))]
                   /\ UNCHANGED <<deque, pushed, result, writes>>
              ELSE /\ stack' = [stack EXCEPT ![w] = SetTop(@, Resume(Top(w), LeafOutcome(b)))]
                   /\ result' = [result EXCEPT ![b] = LeafOutcome(b)]
                   /\ writes' = [writes EXCEPT ![b] = Append(@, w)]
                   /\ deque' = DequeAfterLeaf(w, b)
                   /\ pushed' = PushedAfterLeaf(w, b)
    /\ UNCHANGED <<kind, inPool, latch, exit, owner, removed, popper, thief,
                   waited, reads>>

\* job_b.run_inline(): the latch is set, the value returned or the panic
\* re-raised; return (result_a, result_b)
JoinInlineReturn(w) ==
    /\ OnTop(w, "join", "inline_set")
    /\ LET b == OperB(Top(w).node)
       IN  /\ latch' = LatchSet(b)
           /\ Exit(w, Returned(Top(w).ra, result[b]))
    /\ UNCHANGED <<kind, inPool, deque, pushed, owner, runs, removed, popper, thief,
                   waited, reads, inlined>>

\* return (result_a, job_b.into_result())
JoinResult(w) ==
    /\ OnTop(w, "join", "result")
    /\ LET b == OperB(Top(w).node)
       IN  /\ reads' = [reads EXCEPT ![b] = @ + 1]
           /\ Exit(w, Returned(Top(w).ra, result[b]))
    /\ UNCHANGED <<kind, inPool, deque, pushed, latch, owner, runs, removed, popper, thief,
                   waited, inlined>>

(***************************************************************************)
(* WorkerThread::wait_until and Job::execute                               *)
(***************************************************************************)

\* Where a wait_until loop on latch j goes on after an iteration.  Latch 0
\* is the pool's terminate latch (main_loop waits on it): it is never set
\* while the pool runs, so its probe is folded into the search for work.
LoopPc(j) == IF j = 0 THEN "find" ELSE "probe"

\* Mutant: wait_until also returns when the worker's own deque is empty.
MutWaitProbe(w) ==
    /\ OnTop(w, "wait", "probe")
    /\ stack' = [stack EXCEPT ![w] =
                    IF Probe(Top(w).node) \/ deque[w] = <<>>
                    THEN PopFrame(@)
                    ELSE SetTop(@, [Top(w) EXCEPT !.pc = "find"])]
    /\ UNCHANGED <<kind, inPool, deque, pushed, latch, result, exit, owner, runs,
                   writes, removed, popper, thief, waited, reads, inlined>>

\* while !latch.probe()
WaitProbe(w) ==
    /\ OnTop(w, "wait", "probe")
    /\ stack' = [stack EXCEPT ![w] =
                    IF Probe(Top(w).node)
                    THEN PopFrame(@)
                    ELSE SetTop(@, [Top(w) EXCEPT !.pc = "find"])]
    /\ UNCHANGED <<kind, inPool, deque, pushed, latch, result, exit, owner, runs,
                   writes, removed, popper, thief, waited, reads, inlined>>

\* self.pop() found local work: execute it
WaitPop(w) ==
    /\ OnTop(w, "wait", "find")
    /\ deque[w] # <<>>
    /\ LET job == PopJob(deque[w])
       IN  /\ deque' = [deque EXCEPT ![w] = Pop(@)]
           /\ removed' = [removed EXCEPT ![job] = @ + 1]
           /\ UNCHANGED <<pushed, popper>>
           /\ stack' = [stack EXCEPT ![w] =
                 Append(SetTop(@, [Top(w) EXCEPT !.pc = LoopPc(Top(w).node)]),
                        Frame("exec", job, "call"))]
    /\ UNCHANGED <<kind, inPool, latch, result, exit, owner, runs, writes,
                   thief, waited, reads, inlined>>

\* local deque empty: self.steal() took the oldest job of victim v
WaitSteal(w, v) ==
    /\ OnTop(w, "wait", "find")
    /\ deque[w] = <<>>
    /\ v # w
    /\ deque[v] # <<>>
    /\ LET job == StealJob(deque[v])
       IN  /\ deque' = [deque EXCEPT ![v] = Steal(@)]
           /\ removed' = [removed EXCEPT ![job] = @ + 1]
           /\ UNCHANGED <<pushed, popper>>
           /\ thief' = [thief EXCEPT ![job] = w]
           /\ stack' = [stack EXCEPT ![w] =
                 Append(SetTop(@, [Top(w) EXCEPT !.pc = LoopPc(Top(w).node)]),
                        Frame("exec", job, "call"))]
    /\ UNCHANGED <<kind, inPool, latch, result, exit, owner, runs, writes,
                   waited, reads, inlined>>

\* no local work and the chosen victim had none: poll the latch again
WaitYield(w) ==
    /\ OnTop(w, "wait", "find")
    /\ Top(w).node # 0
    /\ deque[w] = <<>>
    /\ \/ Workers = {w}
       \/ \E v \in Workers \ {w} : deque[v] = <<>>
    /\ stack' = [stack EXCEPT ![w] = SetTop(@, [Top(w) EXCEPT !.pc = "probe"])]
    /\ UNCHANGED <<kind, inPool, deque, pushed, latch, result, exit, owner, runs,
                   writes, removed, popper, thief, waited, reads, inlined>>

\* Job::execute: call the closure and store its outcome in the result cell
ExecCall(w) ==
    /\ OnTop(w, "exec", "call")
    /\ LET j == Top(w).node
       IN  /\ runs' = [runs EXCEPT ![j] = Append(@, w)]
           /\ IF j < 0
              THEN /\ stack' = [stack EXCEPT ![w] = PopFrame(@)]
                   /\ UNCHANGED <<deque, pushed, result, writes>>
              ELSE IF KindOf(j) = "join"
              THEN /\ stack' = [stack EXCEPT ![w] = Append(@, Frame("join", j, "start"))]
                   /\ UNCHANGED <<deque, pushed, result, writes>>
              ELSE /\ stack' = [stack EXCEPT ![w] = SetTop(@, Resume(Top(w), LeafOutcome(j)))]
                   /\ result' = [result EXCEPT ![j] = LeafOutcome(j)]
                   /\ writes' = [writes EXCEPT ![j] = Append(@, w)]
                   /\ deque' = DequeAfterLeaf(w, j)
                   /\ pushed' = PushedAfterLeaf(w, j)
    /\ UNCHANGED <<kind, inPool, latch, exit, owner, removed, popper, thief,
                   waited, reads, inlined>>

\* StackJob::execute: self.latch.set()
ExecSet(w) ==
    /\ OnTop(w, "exec", "set")
    /\ latch' = LatchSet(Top(w).node)
    /\ stack' = [stack EXCEPT ![w] = PopFrame(@)]
    /\ UNCHANGED <<kind, inPool, deque, pushed, result, exit, owner, runs, writes,
                   removed, popper, thief, waited, reads, inlined>>

Step(w) ==
    \/ JoinMisuse(w)
    \/ JoinStart(w)
    \/ JoinRunA(w)
    \/ JoinRecover(w)
    \/ JoinResume(w)
    \/ JoinProbe(w)
    \/ JoinPop(w)
    \/ JoinAssert(w)
    \/ JoinRunInline(w)
    \/ JoinInlineReturn(w)
    \/ JoinResult(w)
    \/ WaitProbe(w)
    \/ WaitPop(w)
    \/ \E v \in Workers : WaitSteal(w, v)
    \/ WaitYield(w)
    \/ ExecCall(w)
    \/ ExecSet(w)

Next == \E w \in Workers : Step(w)

Spec == Init /\ [][Next]_vars

\* Every worker is an OS thread of its own and keeps being scheduled; the
\* closures are the terminating steps above.
FairSpec == Spec /\ \A w \in Workers : WF_vars(Step(w))

\* Only the worker that called the outermost join is known to keep running;
\* the other workers may be scheduled or not (a pool of one worker has none).
CallerFairSpec == Spec /\ WF_vars(Step(1))

(***************************************************************************)
(* Notions the properties are stated with.                                 *)
(***************************************************************************)

\* The join call at node n has returned or started unwinding.
Exited(n) == exit[n].tag \in {"ok", "panic"}

\* Job j sits in a deque.
Occurrences(j) ==
    Cardinality({p \in Workers \X (1..Cardinality(Jobs)) :
                    /\ p[2] <= Len(deque[p[1]])
                    /\ deque[p[1]][p[2]] = j})
InDeque(j) == Occurrences(j) > 0

\* Some worker holds job j to execute it, or is executing its closure.
Running(j) ==
    \E w \in Workers : \E i \in 1..Len(stack[w]) :
        LET f == stack[w][i]
        IN  \/ f.kind = "exec" /\ f.node = j
            \/ f.kind = "join" /\ f.node = j
            \/ f.kind = "join" /\ OperB(f.node) = j
                                /\ f.pc \in {"inline", "inline_set"}

Complete(j) == ~InDeque(j) /\ ~Running(j) /\ runs[j] # <<>>

\* What closure A of the join at node n did, once it has run.
AOutcome(n) ==
    IF KindOf(OperA(n)) = "join"
    THEN OutcomeOf(exit[OperA(n)])
    ELSE LeafOutcome(OperA(n))
APanicked(n) == AOutcome(n).tag = "panic"

\* The sequential computation: join(a, b) replaced by a() then b().
RECURSIVE SeqOutcome(_)
SeqOutcome(n) ==
    IF KindOf(n) # "join" THEN LeafOutcome(n)
    ELSE LET oa == SeqOutcome(OperA(n))
             ob == SeqOutcome(OperB(n))
         IN  IF oa.tag # "ok" THEN oa
             ELSE IF ob.tag # "ok" THEN ob
             ELSE Ok(Combine(oa.val, ob.val))

NoPanics == \A n \in DOMAIN kind : kind[n] # "panic"

(***************************************************************************)
(* Properties.                                                             *)
(***************************************************************************)

\* C1: whenever a join call has returned or started unwinding (normally,
\* with A's panic or with B's panic), its job B is complete: in no deque,
\* held or executed by no worker, and its closure has run.
C1_BCompleteAtExit ==
    \A n \in JoinNodes : Exited(n) => Complete(OperB(n))

\* C1 witness: a join unwound with A's panic after B had been stolen.
C1_Witness ==
    \E n \in JoinNodes :
        /\ exit[n].tag = "panic"
        /\ APanicked(n)
        /\ thief[OperB(n)] # 0
        /\ Complete(OperB(n))

\* C2: closure B of a join call is never entered twice, and it has been
\* entered exactly once when the join call exits, also when A panicked.
C2_BExecutedOnce ==
    /\ \A j \in BJobs : Len(runs[j]) <= 1
    /\ \A n \in JoinNodes : Exited(n) => Len(runs[OperB(n)]) = 1

\* C2 witness: A panicked, nobody stole B, and B has run once at the exit.
C2_Witness ==
    \E n \in JoinNodes :
        /\ exit[n].tag = "panic"
        /\ APanicked(n)
        /\ thief[OperB(n)] = 0
        /\ Len(runs[OperB(n)]) = 1

\* C3: when no closure of the tree panics, every join call that has exited
\* returned (result of A, result of B) as the sequential computation gives
\* them, whatever was stolen.
C3_ParallelEqualsSequential ==
    (inPool /\ NoPanics) =>
        \A n \in JoinNodes :
            exit[n].tag # "none" =>
                exit[n] = ExitOk(SeqOutcome(OperA(n)).val,
                                 SeqOutcome(OperB(n)).val)

\* C3 witness: a tree of nested joins has returned and two of its jobs B
\* were stolen by two different workers.
C3_Witness ==
    /\ NoPanics
    /\ exit[1].tag = "ok"
    /\ \E n \in JoinNodes \ {1} : exit[n].tag = "ok"
    /\ \E i, j \in BJobs : thief[i] # 0 /\ thief[j] # 0 /\ thief[i] # thief[j]

C5_APanicWins ==
    \A n \in JoinNodes :
        (Exited(n) /\ APanicked(n)) =>
            /\ exit[n] = ExitPanic(AOutcome(n).err)
            /\ exit[n].err = SeqOutcome(OperA(n)).err
            /\ reads[OperB(n)] = 0
            /\ ~inlined[OperB(n)]

\* C5 witness: A and B both panicked, B on a thief, and the join has exited.
C5_Witness ==
    \E n \in JoinNodes :
        /\ Exited(n)
        /\ APanicked(n)
        /\ result[OperB(n)].tag = "panic"
        /\ thief[OperB(n)] # 0

\* C6: a join call during which A or B panicked does not return normally:
\* it unwinds with a panic, and at that point A has run and B is complete.
C6_PanicNeverSwallowed ==
    \A n \in JoinNodes :
        (exit[n].tag # "none" /\ inPool
            /\ (APanicked(n) \/ result[OperB(n)].tag = "panic")) =>
            /\ exit[n].tag = "panic"
            /\ exit[n].err \in {AOutcome(n).err, result[OperB(n)].err} \ {0}
            /\ runs[OperA(n)] # <<>>
            /\ ~Running(OperA(n))
            /\ Complete(OperB(n))

\* C6 witness: B's panic was re-raised by run_inline in one join and by
\* into_result, B having been stolen, in another.
C6_Witness ==
    \E n, m \in JoinNodes :
        /\ exit[n].tag = "panic" /\ ~APanicked(n)
        /\ inlined[OperB(n)]
        /\ exit[m].tag = "panic" /\ ~APanicked(m)
        /\ thief[OperB(m)] # 0 /\ reads[OperB(m)] = 1

\* C8: when join is called outside a pool, no closure is entered, nothing is
\* pushed on any deque, and join does not exit as a normal return.
C8_MisuseFailsAtOnce ==
    ~inPool =>
        /\ \A j \in Nodes \cup SJobs : runs[j] = <<>>
        /\ \A w \in Workers : deque[w] = <<>>
        /\ \A n \in Nodes : owner[n] = 0 /\ exit[n].tag \in {"none", "abort"}
        /\ \A j \in BJobs : result[j] = Pending /\ ~latch[j]

\* C8 witness: join was called outside a pool and has failed.
C8_Witness == ~inPool /\ exit[1].tag = "abort" /\ stack[1] = <<>>

\* What was pushed: job B by the join of its parent node, a detached job by
\* each run of the closure that spawns it.
PushCount(j) ==
    IF j \in BJobs
    THEN (IF owner[j \div 2] # 0 THEN 1 ELSE 0)
    ELSE (IF KindOf(0 - j) = "spawn" THEN Len(runs[0 - j]) ELSE 0)

\* C9: a pushed job reference is in a deque or has been removed by exactly
\* one pop or steal; none is removed twice, none is lost, and job B has
\* been removed exactly once when its join exits.
C9_ExactlyOneRemoval ==
    /\ \A j \in Jobs :
          /\ removed[j] <= 1
          /\ Occurrences(j) <= 1
          /\ removed[j] + Occurrences(j) = PushCount(j)
          /\ thief[j] # 0 => removed[j] = 1
    /\ \A n \in JoinNodes : Exited(n) => removed[OperB(n)] = 1

\* C9 witness: one job was popped by its owner and two others were stolen by
\* two different thieves.
C9_Witness ==
    \E i, j, k \in Jobs :
        /\ removed[i] = 1 /\ removed[j] = 1 /\ removed[k] = 1
        /\ thief[i] = 0
        /\ thief[j] # 0 /\ thief[k] # 0 /\ thief[j] # thief[k]

\* C10: a result cell is written at most once, by the worker that runs the
\* job; it is written before the latch is set; and join is at into_result
\* only with the latch set.
C10_ResultCell ==
    /\ \A j \in BJobs :
          /\ Len(writes[j]) <= 1
          /\ (result[j].tag = "pending") = (writes[j] = <<>>)
          /\ writes[j] # <<>> => writes[j] = runs[j]
          /\ latch[j] => result[j].tag # "pending"
    /\ \A w \in Workers : \A i \in 1..Len(stack[w]) :
          LET f == stack[w][i]
          IN  (f.kind = "join" /\ f.pc = "result") =>
                  latch[OperB(f.node)] /\ result[OperB(f.node)].tag # "pending"

\* C10 witness: join is about to call into_result on a job a thief ran.
C10_Witness ==
    \E w \in Workers :
        /\ OnTop(w, "join", "result")
        /\ thief[OperB(Top(w).node)] # 0
        /\ writes[OperB(Top(w).node)] = <<thief[OperB(Top(w).node)]>>

\* Some worker is inside wait_until on the latch of job j.
WaitingOn(j) ==
    \E w \in Workers : \E i \in 1..Len(stack[w]) :
        stack[w][i].kind = "wait" /\ stack[w][i].node = j

\* C7: with every worker scheduled fairly, every join call that has started
\* exits, at every nesting depth, and every wait_until on the latch of a
\* job ends with that latch set.
C7_JoinsTerminate ==
    /\ \A n \in Nodes : (owner[n] # 0) ~> Exited(n)
    /\ \A j \in BJobs : WaitingOn(j) ~> (latch[j] /\ ~WaitingOn(j))

\* C7 witness: two workers are inside wait_until at once, one of them while
\* executing the job the other waits for, and neither latch is set yet.
C7_Witness ==
    \E w, v \in Workers : \E i \in BJobs :
        /\ w # v
        /\ OnTop(w, "wait", "find") /\ Top(w).node = i
        /\ thief[i] = v /\ ~latch[i]
        /\ \E k \in 1..Len(stack[v]) :
              /\ stack[v][k].kind = "wait"
              /\ stack[v][k].node \in BJobs \ {i}
              /\ ~latch[stack[v][k].node]

\* The jobs worker w's deque holds.
Holds(w) == {deque[w][i] : i \in 1..Len(deque[w])}

\* The place of job j in the order of the pushes on worker w's deque
\* (0: never pushed there).
PushIndex(w, j) ==
    IF \E i \in 1..Len(pushed[w]) : pushed[w][i] = j
    THEN CHOOSE i \in 1..Len(pushed[w]) : pushed[w][i] = j
    ELSE 0

\* C11: the owner's pop removes, of the jobs its deque holds, the one pushed
\* most recently, and a steal removes the one pushed least recently; so
\* three jobs pushed as P1, P2, P3 are popped as P3, P2, P1 and stolen as
\* P1, P2, P3.
C11_DequeOrder ==
    [][\A w \in Workers : \A j \in Holds(w) :
          removed'[j] > removed[j] =>
              /\ PushIndex(w, j) > 0
              /\ IF thief'[j] = thief[j]
                 THEN \A k \in Holds(w) : PushIndex(w, k) <= PushIndex(w, j)
                 ELSE \A k \in Holds(w) : PushIndex(w, k) >= PushIndex(w, j)]_vars

\* C11 witness: three jobs were pushed on one deque, the third before any
\* of them was removed, and the owner has popped all three.
C11_Witness ==
    \E w \in Workers :
        /\ Len(pushed[w]) = 3
        /\ pushed[w][3] \in SJobs
        /\ deque[w] = <<>>
        /\ \A i \in 1..3 : removed[pushed[w][i]] = 1 /\ thief[pushed[w][i]] = 0

\* Three jobs were pushed on one deque and thieves have stolen all three.
C11_StolenThree ==
    \E w \in Workers :
        /\ Len(pushed[w]) = 3
        /\ deque[w] = <<>>
        /\ \A i \in 1..3 : thief[pushed[w][i]] # 0

\* C12: a latch never goes back: once probe() is true for the latch of a job
\* it is true in every later state, and a set() on a latch that is already
\* set leaves it, and every other latch, as it was.
C12_LatchMonotonic ==
    /\ [](\A j \in BJobs : Probe(j) => LatchSet(j) = latch)
    /\ [][\A j \in BJobs : Probe(j) => Probe(j)']_vars

\* C12 witness: the latch of a stolen job was set, wait_until and the loop
\* of join have probed it, join has left through into_result, and the other
\* latch has been set too; the first is still set.
C12_Witness ==
    \E i, j \in BJobs :
        /\ i # j
        /\ latch[i] /\ waited[i] /\ reads[i] = 1
        /\ Exited((i - 1) \div 2)
        /\ latch[j]

\* The join call at node n is in join_recover_from_panic.
Recovering(n) ==
    \E w \in Workers : \E i \in 1..Len(stack[w]) :
        /\ stack[w][i].kind = "join"
        /\ stack[w][i].node = n
        /\ stack[w][i].pc \in {"recover", "resume"}

NoSteals == \A j \in Jobs : thief[j] = 0

\* C13: a join whose A panicked and whose job B nobody stole has, when it
\* exits, had B popped from the caller's own deque by wait_until and run
\* there once, latch_b set, and leaves with A's panic; and with the calling
\* worker alone known to run, a join that is recovering from A's panic
\* exits unless some job gets stolen.
C13_PanicAloneTerminates ==
    /\ [](\A n \in JoinNodes :
            (Exited(n) /\ APanicked(n) /\ thief[OperB(n)] = 0) =>
                /\ waited[OperB(n)]
                /\ removed[OperB(n)] = 1
                /\ popper[OperB(n)] = 0
                /\ ~inlined[OperB(n)]
                /\ runs[OperB(n)] = <<owner[n]>>
                /\ latch[OperB(n)]
                /\ exit[n] = ExitPanic(AOutcome(n).err))
    /\ \A n \in Nodes : Recovering(n) ~> (Exited(n) \/ ~NoSteals)

\* C13 witness: nothing was ever stolen, A panicked in a join nested in
\* another, and that join has exited with its B run by the calling worker.
C13_Witness ==
    \E n \in JoinNodes \ {1} :
        /\ NoSteals
        /\ APanicked(n)
        /\ Exited(n)
        /\ runs[OperB(n)] = <<1>>

\* C14: when wait_until has returned to join, the latch it waited for is
\* set: at the debug_assert after the wait of the loop, and in
\* join_recover_from_panic before the panic is resumed, probe() is true.
C14_WaitReturnsSet ==
    \A w \in Workers :
        (OnTop(w, "join", "assert") \/ OnTop(w, "join", "resume")) =>
            Probe(OperB(Top(w).node))

\* C14 witness: wait_until has returned to the loop of a join whose job B
\* was stolen, and the worker is at the debug_assert.
C14_Witness ==
    \E w \in Workers :
        /\ OnTop(w, "join", "assert")
        /\ thief[OperB(Top(w).node)] \notin {0, w}
        /\ Probe(OperB(Top(w).node))

\* C15: when the loop of a join call, having seen latch_b unset, finds the
\* worker's own deque empty, and so while it is in the wait_until that
\* follows, job B was taken from the deque by the steal of another worker,
\* and by nothing else; nested join calls included.
C15_EmptyMeansStolen ==
    \A w \in Workers : \A i \in 1..Len(stack[w]) :
        LET f == stack[w][i]
            b == OperB(f.node)
        IN  (/\ f.kind = "join"
             /\ \/ f.pc = "assert"
                \/ f.pc = "pop" /\ i = Len(stack[w]) /\ deque[w] = <<>>) =>
                /\ thief[b] \notin {0, w}
                /\ removed[b] = 1
                /\ popper[b] = 0

\* C15 witness: a join nested in the A of another join is at the pop of
\* its loop with the deque empty; its B and the outer B are both stolen and
\* neither latch is set.
C15_Witness ==
    \E w \in Workers :
        /\ OnTop(w, "join", "pop")
        /\ Len(stack[w]) > 1
        /\ deque[w] = <<>>
        /\ Top(w).node = 2
        /\ ~latch[OperB(Top(w).node)]
        /\ ~latch[OperB(1)] /\ thief[OperB(1)] # 0

\* The jobs B of the join calls whose frames lie below place i of worker
\* w's stack: the calls that enclose the one at place i.
EnclosingBs(w, i) ==
    {OperB(stack[w][k].node) : k \in {m \in 1..(i - 1) :
                                        stack[w][m].kind = "join"}}

\* C16: a job that the loop of a join call popped and that is not the
\* call's own B was pushed on the caller's deque after that B, and is the B
\* of no enclosing join call; the caller itself executes it, on top of the
\* join's frame, and the join goes on at the test of its loop.
C16_PoppedAfterB ==
    /\ \A j \in Jobs :
          (popper[j] # 0 /\ j # OperB(popper[j])) =>
              /\ PushIndex(owner[popper[j]], OperB(popper[j])) > 0
              /\ PushIndex(owner[popper[j]], j) >
                    PushIndex(owner[popper[j]], OperB(popper[j]))
              /\ runs[j] \in {<<>>, <<owner[popper[j]]>>}
    /\ \A w \in Workers : \A i \in 1..(Len(stack[w]) - 1) :
          (stack[w][i].kind = "join" /\ stack[w][i + 1].kind = "exec") =>
              /\ stack[w][i].pc = "probe"
              /\ popper[stack[w][i + 1].node] = stack[w][i].node
              /\ stack[w][i + 1].node # OperB(stack[w][i].node)
              /\ stack[w][i + 1].node \notin EnclosingBs(w, i)

\* C16 witness: a join nested in the A of another join has popped a job
\* that its A pushed and is executing it, while its own B and the B of the
\* enclosing join are still in the deque.
C16_Witness ==
    \E w \in Workers :
        /\ Len(stack[w]) = 3
        /\ stack[w][1].kind = "join" /\ stack[w][2].kind = "join"
        /\ stack[w][3].kind = "exec"
        /\ popper[stack[w][3].node] = stack[w][2].node
        /\ deque[w] = <<OperB(stack[w][1].node), OperB(stack[w][2].node)>>

EntersWait(w) ==
    /\ Len(stack'[w]) = Len(stack[w]) + 1
    /\ stack'[w][Len(stack'[w])].kind = "wait"

\* C18 as the claim words it: join calls wait_until only when a pop has
\* just found the calling worker's deque empty, never while the deque holds
\* a job.
C18_WaitOnlyWhenEmpty ==
    [][\A w \in Workers :
          EntersWait(w) => (OnTop(w, "join", "pop") /\ deque[w] = <<>>)]_vars

\* C18: wait_until is called in two places only.  The loop of join calls
\* it when its pop has just found the calling worker's deque empty;
\* join_recover_from_panic calls it with no pop before, whatever the deque
\* holds.
C18_WaitAfterEmptyPop ==
    [][\A w \in Workers :
          EntersWait(w) =>
              \/ OnTop(w, "join", "pop") /\ deque[w] = <<>>
              \/ OnTop(w, "join", "recover")]_vars

\* C18 witness: one worker is in the wait_until its loop called on finding
\* its deque empty; another is in the wait_until of
\* join_recover_from_panic, just called, with its job B still in its deque.
C18_Witness ==
    \E w, v \in Workers :
        /\ Len(stack[w]) > 1 /\ Len(stack[v]) > 1
        /\ Top(w).kind = "wait"
        /\ stack[w][Len(stack[w]) - 1].kind = "join"
        /\ stack[w][Len(stack[w]) - 1].pc = "assert"
        /\ deque[w] = <<>>
        /\ OnTop(v, "wait", "probe")
        /\ stack[v][Len(stack[v]) - 1].kind = "join"
        /\ stack[v][Len(stack[v]) - 1].pc = "resume"
        /\ Top(v).node \in Holds(v)

\* Job j, popped by the loop of the join at node n, is held by the calling
\* worker and about to be run: by run_inline if it is the call's B, by
\* execute if not.
HeldToRun(j, n) ==
    \E i \in 1..Len(stack[owner[n]]) :
        LET f == stack[owner[n]][i]
        IN  IF j = OperB(n)
            THEN f.kind = "join" /\ f.node = n /\ f.pc = "inline"
            ELSE /\ f.kind = "exec" /\ f.node = j /\ f.pc = "call"
                 /\ i > 1
                 /\ stack[owner[n]][i - 1].kind = "join"
                 /\ stack[owner[n]][i - 1].node = n

\* C19: a job that the loop of a join call popped left the deque once and
\* is not put back; it is run at most once, by the calling worker only, B
\* through run_inline and any other job through execute; until it runs the
\* caller holds it to run it; and when the join call has exited it has run
\* once and is over.
C19_PoppedRunOnce ==
    \A j \in Jobs :
        popper[j] # 0 =>
            /\ removed[j] = 1
            /\ ~InDeque(j)
            /\ runs[j] \in {<<>>, <<owner[popper[j]]>>}
            /\ (runs[j] = <<>>) => HeldToRun(j, popper[j])
            /\ (j \in BJobs /\ inlined[j]) =
                   (j = OperB(popper[j]) /\ runs[j] # <<>>)
            /\ Exited(popper[j]) => (runs[j] # <<>> /\ ~Running(j))

\* C19 witness: a join call has exited whose loop popped two jobs, a job
\* its A had pushed and then its own B, and each has run once.
C19_Witness ==
    \E n \in JoinNodes : \E j \in SJobs :
        /\ Exited(n)
        /\ popper[j] = n
        /\ popper[OperB(n)] = n
        /\ Len(runs[j]) = 1
        /\ Len(runs[OperB(n)]) = 1

====
